---- MODULE Spec2Model ----
(***************************************************************************)
(* A model of the agent-monitoring demo backend: the credential resolver,  *)
(* the four catalog tool functions, the tool-calling agent (both variants  *)
(* present in the repository: the module server/agents/databricks_         *)
(* assistant.py and the package server/agents/databricks_assistant/), the  *)
(* model-serving passthrough, the tracing setup and the HTTP handlers.     *)
(*                                                                         *)
(* Python strings are TLA+ strings (Len, \o and SubSeq apply to them).     *)
(* An optional value (None or a value) is a sequence of length 0 or 1.     *)
(* The result of a call that may raise is a record                         *)
(*   [raised |-> BOOLEAN, exc |-> message, value |-> returned value].      *)
(***************************************************************************)
EXTENDS Integers, Sequences, FiniteSets, TLC

VARIABLES
    variant,    \* which databricks_assistant the import in app.py resolves to
    osenv,      \* os.environ: variable name -> optional string
    dotenv,     \* the contents of .env.local: variable name -> optional string
    ambient,    \* the SDK's default chain finds credentials outside os.environ
    workspace,  \* what the workspace's list APIs answer: names and tables
    cli,        \* the process arguments and the file system seen at startup
    pc,         \* position of the process in the import of server/app.py
    tracing,    \* the process-wide mlflow configuration and how often it was set
    MLFLOW_EXPERIMENT_ID, \* the module global of server/tracing.py
    IS_DEV,     \* the module global of server/app.py
    catch_all,  \* the catch-all handler registered on the app: none, static or proxy
    traces,     \* the tracing subsystem: last active trace id and its previews
    run,        \* the agent run in progress inside the /api/agent handler
    last        \* the last completed call: its operation, inputs and outcome

vars == <<variant, osenv, dotenv, ambient, workspace, cli, pc, tracing,
          MLFLOW_EXPERIMENT_ID, IS_DEV, catch_all, traces, run, last>>

-----------------------------------------------------------------------------
(* Bounds of the model *)

\* longest message list handed to an agent or endpoint call
MaxMessages == 2
\* longest result set a remote list call returns
MaxItems == 2
\* number of traces the tracing subsystem records before the model stops
MaxTraces == 2

-----------------------------------------------------------------------------
(* Python values *)

None == <<>>
Some(v) == <<v>>

\* truthiness of an optional string: None and '' are falsy
Truthy(o) == o /= None /\ o[1] /= ""

\* str.startswith
startswith(s, p) == Len(s) >= Len(p) /\ SubSeq(s, 1, Len(p)) = p

\* the slice s[n:]
slice_from(s, n) == SubSeq(s, n + 1, Len(s))

\* the slice s[:n]
slice_to(s, n) == SubSeq(s, 1, IF Len(s) < n THEN Len(s) ELSE n)

\* m in s
contains(s, m) == \E i \in 0..(Len(s) - Len(m)) : SubSeq(s, i + 1, i + Len(m)) = m

\* sep.join(parts)
RECURSIVE join(_, _)
join(sep, parts) ==
    IF Len(parts) = 0 THEN ""
    ELSE IF Len(parts) = 1 THEN parts[1]
    ELSE parts[1] \o sep \o join(sep, Tail(parts))

Return(v) == [raised |-> FALSE, exc |-> "", value |-> v]
Raise(msg) == [raised |-> TRUE, exc |-> msg, value |-> None]

\* sequences over S of length at most n
SeqUpTo(S, n) == UNION {[1..k -> S] : k \in 0..n}

-----------------------------------------------------------------------------
(* Environment *)

EnvNames == {"DATABRICKS_HOST", "DATABRICKS_TOKEN", "DATABRICKS_CLIENT_ID",
             "DATABRICKS_CLIENT_SECRET", "MLFLOW_EXPERIMENT_ID", "IS_DEV"}

\* load_dotenv(dotenv_path='.env.local'): a variable of the file is set only
\* when os.environ does not hold it already (override defaults to False)
load_dotenv(file, e) == [k \in EnvNames |-> IF e[k] = None THEN file[k] ELSE e[k]]

\* os.getenv(name)
getenv(e, name) == e[name]

-----------------------------------------------------------------------------
(* The workspace SDK, as far as the resolver depends on it *)

SdkAuthError == "default auth: cannot configure default credentials"

\* The outcome of building a workspace client: `ctor` is the constructor call
\* that was made (None when the resolver raised before making one).
Built(ctor) == [raised |-> FALSE, exc |-> "", ctor |-> Some(ctor)]
SdkRaise(ctor) == [raised |-> TRUE, exc |-> SdkAuthError, ctor |-> Some(ctor)]
ValueError(msg) == [raised |-> TRUE, exc |-> msg, ctor |-> None]

\* w.config.host of a client built by WorkspaceClient(): the environment's
\* host, else the host of the ambient configuration
config_host(e, amb) ==
    IF Truthy(e["DATABRICKS_HOST"]) THEN e["DATABRICKS_HOST"]
    ELSE IF amb THEN Some("https://ambient.cloud.databricks.com") ELSE None

\* w.config.token of a client built by WorkspaceClient()
config_token(e) == IF Truthy(e["DATABRICKS_TOKEN"]) THEN e["DATABRICKS_TOKEN"] ELSE None

\* WorkspaceClient(): the SDK's unified authentication reads the same
\* environment variables and then its ambient sources; it raises when no
\* strategy yields credentials.
WorkspaceClient_default(e, amb) ==
    LET ctor == [mode |-> "default", host |-> config_host(e, amb),
                 token |-> config_token(e)]
    IN  IF \/ Truthy(e["DATABRICKS_CLIENT_ID"]) /\ Truthy(e["DATABRICKS_CLIENT_SECRET"])
           \/ Truthy(e["DATABRICKS_HOST"]) /\ Truthy(e["DATABRICKS_TOKEN"])
           \/ amb
        THEN Built(ctor)
        ELSE SdkRaise(ctor)

\* WorkspaceClient(host=..., token=...)
WorkspaceClient_explicit(host, token) ==
    Built([mode |-> "explicit", host |-> Some(host), token |-> Some(token)])

-----------------------------------------------------------------------------
(* Credential resolution: agents/databricks_assistant/auth.py (package)   *)
(* and agents/databricks_assistant.py (module)                            *)

\* auth.py: the host+token branch with the scheme cut one character short
auth_host_token_client_short(databricks_host, databricks_token) ==
    WorkspaceClient_explicit(
        IF startswith(databricks_host, "https://")
        THEN slice_from(databricks_host, 7) ELSE databricks_host,
        databricks_token)

\* auth.py: remove the https:// prefix if present, then build the client
auth_host_token_client(databricks_host, databricks_token) ==
    WorkspaceClient_explicit(
        IF startswith(databricks_host, "https://")
        THEN slice_from(databricks_host, 8) ELSE databricks_host,
        databricks_token)

\* auth.py get_workspace_client
auth_get_workspace_client(e, amb) ==
    LET client_id == getenv(e, "DATABRICKS_CLIENT_ID")
        client_secret == getenv(e, "DATABRICKS_CLIENT_SECRET")
        databricks_host == getenv(e, "DATABRICKS_HOST")
        databricks_token == getenv(e, "DATABRICKS_TOKEN")
    IN  IF Truthy(client_id) /\ Truthy(client_secret)
        THEN WorkspaceClient_default(e, amb)
        ELSE IF Truthy(databricks_token) /\ Truthy(databricks_host)
        THEN auth_host_token_client(databricks_host[1], databricks_token[1])
        ELSE WorkspaceClient_default(e, amb)

\* databricks_assistant.py get_workspace_client
assistant_get_workspace_client(e, amb) ==
    LET databricks_host == getenv(e, "DATABRICKS_HOST")
        databricks_token == getenv(e, "DATABRICKS_TOKEN")
    IN  IF ~Truthy(databricks_token)
        THEN ValueError("DATABRICKS_TOKEN environment variable is required")
        ELSE IF ~Truthy(databricks_host)
        THEN ValueError("DATABRICKS_HOST environment variable is required")
        ELSE WorkspaceClient_explicit(
                IF startswith(databricks_host[1], "https://")
                THEN slice_from(databricks_host[1], 8) ELSE databricks_host[1],
                databricks_token[1])

-----------------------------------------------------------------------------
(* The OpenAI-compatible client: agents/model_serving.py get_client.       *)
(* `authenticate` is the outcome of w.config.authenticate(): the request   *)
(* headers, or an exception.                                               *)

\* OpenAI(api_key=..., base_url=f'https://{host}/serving-endpoints')
OpenAI(api_key, databricks_host) ==
    Return([api_key |-> api_key,
            base_url |-> "https://" \o databricks_host \o "/serving-endpoints"])

\* model_serving.py get_client, the except branch: environment variables
get_client_fallback(e) ==
    LET databricks_token == getenv(e, "DATABRICKS_TOKEN")
        databricks_host == getenv(e, "DATABRICKS_HOST")
    IN  IF ~Truthy(databricks_token)
        THEN Raise("Unable to authenticate with Databricks")
        ELSE IF ~Truthy(databricks_host)
        THEN Raise("Unable to determine Databricks host")
        ELSE OpenAI(databricks_token[1],
                    IF startswith(databricks_host[1], "https://")
                    THEN slice_from(databricks_host[1], 8) ELSE databricks_host[1])

\* model_serving.py get_client
get_client(e, amb, authenticate) ==
    LET w == WorkspaceClient_default(e, amb)
    IN  IF w.raised THEN get_client_fallback(e)
        ELSE LET databricks_host == w.ctor[1].host
                 config_tok == w.ctor[1].token
             IN  IF ~Truthy(config_tok) /\ authenticate.raised
                 THEN get_client_fallback(e)
                 ELSE IF databricks_host = None
                 THEN get_client_fallback(e)   \* None.startswith: AttributeError
                 ELSE OpenAI(
                        IF Truthy(config_tok) THEN config_tok[1]
                        ELSE IF "access_token" \in DOMAIN authenticate.value
                             THEN authenticate.value["access_token"]
                             ELSE "no-token-required",
                        IF startswith(databricks_host[1], "https://")
                        THEN slice_from(databricks_host[1], 8) ELSE databricks_host[1])

\* what w.config.authenticate() gives: the headers of a request, or a failure
AuthenticateOutcomes ==
    {Return([Authorization |-> "Bearer oauth-token"]), Raise("oauth token request failed")}

-----------------------------------------------------------------------------
(* Catalog tool functions: agents/databricks_assistant/tools.py (package) *)
(* and agents/databricks_assistant.py (module).  `remote` is the outcome   *)
(* of the SDK list call: Return(items) or Raise(message).                  *)

\* [x.name for x in items if x.name]
names_of(items) ==
    LET kept == SelectSeq(items, LAMBDA it : Truthy(it.name))
    IN  [i \in 1..Len(kept) |-> kept[i].name[1]]

\* str(x) of a table type: None prints as 'None'
py_str(v) == IF v = None THEN "None" ELSE v[1]

\* tools.py list_tables, the loop: getattr(table, 'table_type', 'TABLE')
tools_table_info(tables) ==
    LET kept == SelectSeq(tables, LAMBDA t : Truthy(t.name))
    IN  [i \in 1..Len(kept) |->
            kept[i].name[1] \o " (" \o
            (IF kept[i].table_type = None THEN "TABLE" ELSE py_str(kept[i].table_type[1]))
            \o ")"]

\* databricks_assistant.py list_tables, the loop:
\* table.table_type if hasattr(table, 'table_type') else 'TABLE'
assistant_table_info(tables) ==
    LET kept == SelectSeq(tables, LAMBDA t : Truthy(t.name))
    IN  [i \in 1..Len(kept) |->
            kept[i].name[1] \o " (" \o
            (IF kept[i].table_type = None THEN "TABLE" ELSE py_str(kept[i].table_type[1]))
            \o ")"]

\* the first statements of a tool's try block: resolve the client, then call
\* the list API; either may raise, else the items are at hand
TryBlock(w, remote) ==
    IF w.raised THEN Raise(w.exc)
    ELSE IF remote.raised THEN Raise(remote.exc)
    ELSE Return(remote.value)

\* tools.py list_catalogs whose handler lets a credential error through
tools_list_catalogs_uncaught(e, amb, remote) ==
    LET w == auth_get_workspace_client(e, amb)
        tried == TryBlock(w, remote)
        sentence(catalogs) ==
                    LET catalog_names == names_of(catalogs)
                    IN  IF catalog_names /= <<>>
                        THEN "Available catalogs: " \o join(", ", catalog_names)
                        ELSE "No catalogs found in the workspace."
        body == IF tried.raised THEN tried ELSE Return(sentence(tried.value))
    IN  IF body.raised /\ ~w.raised
        THEN Return("Error listing catalogs: " \o body.exc) ELSE body

\* tools.py list_catalogs
tools_list_catalogs(e, amb, remote) ==
    LET w == auth_get_workspace_client(e, amb)
        tried == TryBlock(w, remote)
        sentence(catalogs) ==
                    LET catalog_names == names_of(catalogs)
                    IN  IF catalog_names /= <<>>
                        THEN "Available catalogs: " \o join(", ", catalog_names)
                        ELSE "No catalogs found in the workspace."
        body == IF tried.raised THEN tried ELSE Return(sentence(tried.value))
    IN  IF body.raised THEN Return("Error listing catalogs: " \o body.exc) ELSE body

\* tools.py list_schemas
tools_list_schemas(e, amb, catalog_name, remote) ==
    LET w == auth_get_workspace_client(e, amb)
        tried == TryBlock(w, remote)
        sentence(schemas) ==
                    LET schema_names == names_of(schemas)
                    IN  IF schema_names /= <<>>
                        THEN "Schemas in catalog \"" \o catalog_name \o "\": "
                                \o join(", ", schema_names)
                        ELSE "No schemas found in catalog \"" \o catalog_name \o "\"."
        body == IF tried.raised THEN tried ELSE Return(sentence(tried.value))
    IN  IF body.raised
        THEN Return("Error listing schemas in catalog \"" \o catalog_name \o "\": "
                        \o body.exc)
        ELSE body

\* tools.py list_tables that reports an empty listing as an error
tools_list_tables_empty_error(e, amb, catalog_name, schema_name, remote) ==
    LET w == auth_get_workspace_client(e, amb)
        tried == TryBlock(w, remote)
        sentence(tables) ==
                    LET table_info == tools_table_info(tables)
                    IN  IF table_info /= <<>>
                        THEN "Tables in " \o catalog_name \o "." \o schema_name \o ": "
                                \o join(", ", table_info)
                        ELSE "Error listing tables in " \o catalog_name \o "."
                                \o schema_name \o ": no tables"
        body == IF tried.raised THEN tried ELSE Return(sentence(tried.value))
    IN  IF body.raised
        THEN Return("Error listing tables in " \o catalog_name \o "." \o schema_name
                        \o ": " \o body.exc)
        ELSE body

\* tools.py list_tables
tools_list_tables(e, amb, catalog_name, schema_name, remote) ==
    LET w == auth_get_workspace_client(e, amb)
        tried == TryBlock(w, remote)
        sentence(tables) ==
                    LET table_info == tools_table_info(tables)
                    IN  IF table_info /= <<>>
                        THEN "Tables in " \o catalog_name \o "." \o schema_name \o ": "
                                \o join(", ", table_info)
                        ELSE "No tables found in " \o catalog_name \o "." \o schema_name
                                \o "."
        body == IF tried.raised THEN tried ELSE Return(sentence(tried.value))
    IN  IF body.raised
        THEN Return("Error listing tables in " \o catalog_name \o "." \o schema_name
                        \o ": " \o body.exc)
        ELSE body

\* tools.py list_volumes
tools_list_volumes(e, amb, catalog_name, schema_name, remote) ==
    LET w == auth_get_workspace_client(e, amb)
        tried == TryBlock(w, remote)
        sentence(volumes) ==
                    LET volume_names == names_of(volumes)
                    IN  IF volume_names /= <<>>
                        THEN "Volumes in " \o catalog_name \o "." \o schema_name \o ": "
                                \o join(", ", volume_names)
                        ELSE "No volumes found in " \o catalog_name \o "." \o schema_name
                                \o "."
        body == IF tried.raised THEN tried ELSE Return(sentence(tried.value))
    IN  IF body.raised
        THEN Return("Error listing volumes in " \o catalog_name \o "." \o schema_name
                        \o ": " \o body.exc)
        ELSE body

\* databricks_assistant.py list_catalogs
assistant_list_catalogs(e, amb, remote) ==
    LET w == assistant_get_workspace_client(e, amb)
        tried == TryBlock(w, remote)
        sentence(catalogs) ==
                    LET catalog_names == names_of(catalogs)
                    IN  IF catalog_names /= <<>>
                        THEN "Available catalogs: " \o join(", ", catalog_names)
                        ELSE "No catalogs found in the workspace."
        body == IF tried.raised THEN tried ELSE Return(sentence(tried.value))
    IN  IF body.raised THEN Return("Error listing catalogs: " \o body.exc) ELSE body

\* databricks_assistant.py list_schemas
assistant_list_schemas(e, amb, catalog_name, remote) ==
    LET w == assistant_get_workspace_client(e, amb)
        tried == TryBlock(w, remote)
        sentence(schemas) ==
                    LET schema_names == names_of(schemas)
                    IN  IF schema_names /= <<>>
                        THEN "Schemas in catalog '" \o catalog_name \o "': "
                                \o join(", ", schema_names)
                        ELSE "No schemas found in catalog '" \o catalog_name \o "'."
        body == IF tried.raised THEN tried ELSE Return(sentence(tried.value))
    IN  IF body.raised
        THEN Return("Error listing schemas in catalog '" \o catalog_name \o "': "
                        \o body.exc)
        ELSE body

\* databricks_assistant.py list_tables
assistant_list_tables(e, amb, catalog_name, schema_name, remote) ==
    LET w == assistant_get_workspace_client(e, amb)
        tried == TryBlock(w, remote)
        sentence(tables) ==
                    LET table_info == assistant_table_info(tables)
                    IN  IF table_info /= <<>>
                        THEN "Tables in " \o catalog_name \o "." \o schema_name \o ": "
                                \o join(", ", table_info)
                        ELSE "No tables found in " \o catalog_name \o "." \o schema_name
                                \o "."
        body == IF tried.raised THEN tried ELSE Return(sentence(tried.value))
    IN  IF body.raised
        THEN Return("Error listing tables in " \o catalog_name \o "." \o schema_name
                        \o ": " \o body.exc)
        ELSE body

\* databricks_assistant.py list_volumes
assistant_list_volumes(e, amb, catalog_name, schema_name, remote) ==
    LET w == assistant_get_workspace_client(e, amb)
        tried == TryBlock(w, remote)
        sentence(volumes) ==
                    LET volume_names == names_of(volumes)
                    IN  IF volume_names /= <<>>
                        THEN "Volumes in " \o catalog_name \o "." \o schema_name \o ": "
                                \o join(", ", volume_names)
                        ELSE "No volumes found in " \o catalog_name \o "." \o schema_name
                                \o "."
        body == IF tried.raised THEN tried ELSE Return(sentence(tried.value))
    IN  IF body.raised
        THEN Return("Error listing volumes in " \o catalog_name \o "." \o schema_name
                        \o ": " \o body.exc)
        ELSE body

-----------------------------------------------------------------------------
(* Startup: the import of server/app.py, statement by statement *)

\* mlflow.langchain.autolog() as called in databricks_assistant.py
AutologDefaults == [args |-> "defaults"]

\* mlflow.langchain.autolog(...) as called in setup_mlflow_tracing
AutologExplicit ==
    [args |-> "explicit", log_input_examples |-> TRUE, log_model_signatures |-> TRUE,
     log_models |-> FALSE, log_datasets |-> FALSE, log_inputs_outputs |-> TRUE,
     disable |-> FALSE, exclusive |-> FALSE,
     disable_for_unsupported_versions |-> FALSE, silent |-> FALSE]

NoWrites == [tracking_uri |-> 0, experiment |-> 0, destination |-> 0, autolog |-> 0]

\* the mlflow configuration of a fresh process: nothing set
TracingUnset ==
    [tracking_uri |-> None, experiment |-> None, destination |-> None,
     autolog |-> None, writes |-> NoWrites]

\* mlflow.set_tracking_uri(uri)
set_tracking_uri(t, uri) ==
    [t EXCEPT !.tracking_uri = Some(uri), !.writes.tracking_uri = @ + 1]

\* mlflow.set_experiment(experiment_id=id)
set_experiment(t, id) ==
    [t EXCEPT !.experiment = Some(id), !.writes.experiment = @ + 1]

\* tracing.set_destination(Databricks(experiment_id=id))
set_destination(t, id) ==
    [t EXCEPT !.destination = Some(id), !.writes.destination = @ + 1]

\* mlflow.langchain.autolog(...)
autolog(t, options) ==
    [t EXCEPT !.autolog = Some(options), !.writes.autolog = @ + 1]

\* str.lower on the values IS_DEV takes here
py_lower(s) == IF s \in {"True", "TRUE", "true"} THEN "true" ELSE s

\* app.py: from .agents.databricks_assistant import ..., from .agents.model_serving
\* import ...: each module runs load_dotenv; the module variant also enables autolog
ImportAgents ==
    /\ pc = "import_agents"
    /\ osenv' = load_dotenv(dotenv, load_dotenv(dotenv, osenv))
    /\ tracing' = IF variant = "module" THEN autolog(tracing, AutologDefaults)
                  ELSE tracing
    /\ pc' = "import_tracing"
    /\ UNCHANGED <<variant, dotenv, ambient, workspace, cli, MLFLOW_EXPERIMENT_ID, IS_DEV,
                   catch_all, traces, run, last>>

\* the module body of server/tracing.py
ImportTracing ==
    /\ pc = "import_tracing"
    /\ LET id == getenv(osenv, "MLFLOW_EXPERIMENT_ID")
       IN  /\ MLFLOW_EXPERIMENT_ID' = id
           /\ tracing' = set_destination(
                            set_experiment(set_tracking_uri(tracing, "databricks"), id),
                            id)
    /\ pc' = "app_body"
    /\ UNCHANGED <<variant, osenv, dotenv, ambient, workspace, cli, IS_DEV, catch_all, traces, run, last>>

\* app.py: IS_DEV from the environment, then assigned from --reload
app_IS_DEV(e, reload) ==
    LET from_env == py_lower(IF getenv(e, "IS_DEV") = None THEN "false"
                             ELSE getenv(e, "IS_DEV")[1]) = "true"
    IN  reload

\* app.py: load_dotenv, IS_DEV
AppBody ==
    /\ pc = "app_body"
    /\ osenv' = load_dotenv(dotenv, osenv)
    /\ IS_DEV' = app_IS_DEV(osenv', cli.reload)
    /\ pc' = "setup_mlflow_tracing"
    /\ UNCHANGED <<variant, dotenv, ambient, workspace, cli, tracing, MLFLOW_EXPERIMENT_ID,
                   catch_all, traces, run, last>>

\* tracing.py setup_mlflow_tracing: its MLFLOW_EXPERIMENT_ID is a local
setup_mlflow_tracing(t, e) ==
    LET local_id == getenv(e, "MLFLOW_EXPERIMENT_ID")
    IN  autolog(set_experiment(set_tracking_uri(t, "databricks"), local_id),
                AutologExplicit)

\* app.py: setup_mlflow_tracing()
SetupMlflowTracing ==
    /\ pc = "setup_mlflow_tracing"
    /\ tracing' = setup_mlflow_tracing(tracing, osenv)
    /\ pc' = "mount"
    /\ UNCHANGED <<variant, osenv, dotenv, ambient, workspace, cli, MLFLOW_EXPERIMENT_ID, IS_DEV,
                   catch_all, traces, run, last>>

\* app.py: the static mount (RuntimeError without the build directory) or the
\* dev proxy route; then the app serves requests
MountFrontend ==
    /\ pc = "mount"
    /\ IF ~IS_DEV
       THEN IF cli.build_exists
            THEN catch_all' = "static" /\ pc' = "serving"
            ELSE catch_all' = "none" /\ pc' = "failed"
       ELSE catch_all' = "proxy" /\ pc' = "serving"
    /\ UNCHANGED <<variant, osenv, dotenv, ambient, workspace, cli, tracing, MLFLOW_EXPERIMENT_ID,
                   IS_DEV, traces, run, last>>

Startup == ImportAgents \/ ImportTracing \/ AppBody \/ SetupMlflowTracing \/ MountFrontend

Idle == [phase |-> "idle"]

\* the state of the process before the first statement of app.py
InitFrom(Variants, Envs, Files, Ambients, Workspaces, Clis) ==
    /\ variant \in Variants
    /\ osenv \in Envs
    /\ dotenv \in Files
    /\ ambient \in Ambients
    /\ workspace \in Workspaces
    /\ cli \in Clis
    /\ pc = "import_agents"
    /\ tracing = TracingUnset
    /\ MLFLOW_EXPERIMENT_ID = None
    /\ IS_DEV = FALSE
    /\ catch_all = "none"
    /\ traces = [last_id |-> 0, previews |-> None]
    /\ run = Idle
    /\ last = [op |-> "none"]

Variants == {"module", "package"}

EmptyFile == [k \in EnvNames |-> None]

DevFile == [EmptyFile EXCEPT !["DATABRICKS_HOST"] = Some("https://dev.cloud.databricks.com"),
                             !["DATABRICKS_TOKEN"] = Some("dapi-dev"),
                             !["MLFLOW_EXPERIMENT_ID"] = Some("7"),
                             !["IS_DEV"] = Some("true")]

Clis == [reload : BOOLEAN, build_exists : BOOLEAN]

\* a workspace without catalogs, schemas, tables or volumes
EmptyWorkspace == [names |-> Return(<<>>), tables |-> Return(<<>>)]

-----------------------------------------------------------------------------
(* Credential resolution over environment configurations *)

HostValues == {None, Some(""), Some("https://foo.cloud.databricks.com"),
               Some("foo.cloud.databricks.com"), Some("http://foo"), Some("https://"),
               Some("HTTPS://foo"), Some("https://https://foo")}

EnvsAuth ==
    [DATABRICKS_HOST : HostValues,
     DATABRICKS_TOKEN : {None, Some(""), Some("dapi123")},
     DATABRICKS_CLIENT_ID : {None, Some(""), Some("app-id")},
     DATABRICKS_CLIENT_SECRET : {None, Some("s3cret")},
     MLFLOW_EXPERIMENT_ID : {Some("42")},
     IS_DEV : {None}]

\* get_workspace_client of the variant in use
get_workspace_client(v, e, amb) ==
    IF v = "module" THEN assistant_get_workspace_client(e, amb)
    ELSE auth_get_workspace_client(e, amb)

\* a call of get_workspace_client()
GetWorkspaceClient ==
    /\ pc = "serving"
    /\ run = Idle
    /\ last' = [op |-> "get_workspace_client",
                result |-> get_workspace_client(variant, osenv, ambient)]
    /\ UNCHANGED <<variant, osenv, dotenv, ambient, workspace, cli, pc, tracing,
                   MLFLOW_EXPERIMENT_ID, IS_DEV, catch_all, traces, run>>

InitAuth == InitFrom(Variants, EnvsAuth, {EmptyFile}, BOOLEAN, {EmptyWorkspace}, Clis)

\* a call of get_client()
GetClient ==
    /\ pc = "serving"
    /\ run = Idle
    /\ \E authenticate \in AuthenticateOutcomes :
          last' = [op |-> "get_client",
                   result |-> get_client(osenv, ambient, authenticate)]
    /\ UNCHANGED <<variant, osenv, dotenv, ambient, workspace, cli, pc, tracing,
                   MLFLOW_EXPERIMENT_ID, IS_DEV, catch_all, traces, run>>

NextAuth == Startup \/ GetWorkspaceClient \/ GetClient

SpecAuth == InitAuth /\ [][NextAuth]_vars

-----------------------------------------------------------------------------
(* The catalog tools over environments and remote outcomes *)

ExcMessages == {"", "PERMISSION_DENIED: no access"}

\* items of a catalog, schema or volume listing: the name may be None or ''
NameItems == {[name |-> n] : n \in {None, Some(""), Some("a"), Some("b")}}

\* items of a table listing; table_type is None when the object has no such
\* attribute, Some(None) when the attribute is unset, Some(Some(t)) otherwise
TableItems ==
    {[name |-> n, table_type |-> t] :
        n \in {None, Some(""), Some("t1")},
        t \in {None, Some(None), Some(Some("TableType.MANAGED"))}}

\* outcomes of an SDK list call over a set of items
Remotes(Items) ==
    {Raise(m) : m \in ExcMessages} \cup {Return(items) : items \in SeqUpTo(Items, MaxItems)}

CatalogNames == {"main", ""}
SchemaNames == {"default"}

\* the tools create_catalog_tools registers, by name, in the variant in use
list_catalogs(v, e, amb, remote) ==
    IF v = "module" THEN assistant_list_catalogs(e, amb, remote)
    ELSE tools_list_catalogs(e, amb, remote)

list_schemas(v, e, amb, catalog_name, remote) ==
    IF v = "module" THEN assistant_list_schemas(e, amb, catalog_name, remote)
    ELSE tools_list_schemas(e, amb, catalog_name, remote)

list_tables(v, e, amb, catalog_name, schema_name, remote) ==
    IF v = "module" THEN assistant_list_tables(e, amb, catalog_name, schema_name, remote)
    ELSE tools_list_tables(e, amb, catalog_name, schema_name, remote)

list_volumes(v, e, amb, catalog_name, schema_name, remote) ==
    IF v = "module" THEN assistant_list_volumes(e, amb, catalog_name, schema_name, remote)
    ELSE tools_list_volumes(e, amb, catalog_name, schema_name, remote)

\* the record of a completed tool call: its arguments, what credential
\* resolution and the remote call did, and what the function returned
ToolCallRecord(op, args, remote, result) ==
    [op |-> op, args |-> args, w |-> get_workspace_client(variant, osenv, ambient),
     remote |-> remote, result |-> result]

ServingFrame == UNCHANGED <<variant, osenv, dotenv, ambient, workspace, cli, pc, tracing,
                            MLFLOW_EXPERIMENT_ID, IS_DEV, catch_all>>

ListCatalogs ==
    /\ pc = "serving"
    /\ run = Idle
    /\ LET remote == workspace.names
       IN  last' = ToolCallRecord("list_catalogs", <<>>, remote,
                                  list_catalogs(variant, osenv, ambient, remote))
    /\ ServingFrame
    /\ UNCHANGED <<traces, run>>

ListSchemas ==
    /\ pc = "serving"
    /\ run = Idle
    /\ \E catalog_name \in CatalogNames :
          LET remote == workspace.names
          IN  last' = ToolCallRecord("list_schemas", <<catalog_name>>, remote,
                        list_schemas(variant, osenv, ambient, catalog_name, remote))
    /\ ServingFrame
    /\ UNCHANGED <<traces, run>>

ListTables ==
    /\ pc = "serving"
    /\ run = Idle
    /\ \E catalog_name \in CatalogNames, schema_name \in SchemaNames :
          LET remote == workspace.tables
          IN  last' = ToolCallRecord("list_tables", <<catalog_name, schema_name>>, remote,
                        list_tables(variant, osenv, ambient, catalog_name, schema_name,
                                    remote))
    /\ ServingFrame
    /\ UNCHANGED <<traces, run>>

ListVolumes ==
    /\ pc = "serving"
    /\ run = Idle
    /\ \E catalog_name \in CatalogNames, schema_name \in SchemaNames :
          LET remote == workspace.names
          IN  last' = ToolCallRecord("list_volumes", <<catalog_name, schema_name>>, remote,
                        list_volumes(variant, osenv, ambient, catalog_name, schema_name,
                                     remote))
    /\ ServingFrame
    /\ UNCHANGED <<traces, run>>

EnvsTools ==
    [DATABRICKS_HOST : {None, Some("https://foo.cloud.databricks.com")},
     DATABRICKS_TOKEN : {None, Some("dapi123")},
     DATABRICKS_CLIENT_ID : {None, Some("app-id")},
     DATABRICKS_CLIENT_SECRET : {Some("s3cret")},
     MLFLOW_EXPERIMENT_ID : {Some("42")},
     IS_DEV : {None}]

\* workspaces that vary the answer of one kind of list call at a time
WorkspacesTools ==
    {[names |-> o, tables |-> Return(<<>>)] : o \in Remotes(NameItems)}
    \cup {[names |-> Return(<<>>), tables |-> o] : o \in Remotes(TableItems)}

InitTools == InitFrom(Variants, EnvsTools, {EmptyFile}, BOOLEAN, WorkspacesTools,
                      {[reload |-> FALSE, build_exists |-> TRUE]})

NextTools == Startup \/ ListCatalogs \/ ListSchemas \/ ListTables \/ ListVolumes

SpecTools == InitTools /\ [][NextTools]_vars

-----------------------------------------------------------------------------
(* Chat messages.  A message is [role, content]; content is None when the   *)
(* key is absent, else Some(value); a value is a str, a JSON null or a list *)
(* (text holds what str() prints).                                          *)

StrV(text) == [kind |-> "str", text |-> text]
NullV == [kind |-> "null", text |-> "None"]
ListV(text) == [kind |-> "list", text |-> text]

\* truthiness of a content value
value_truthy(v) ==
    IF v.kind = "str" THEN v.text /= ""
    ELSE IF v.kind = "list" THEN v.text /= "[]"
    ELSE FALSE

\* msg.get('content', '')
get_content(msg) == IF msg.content = None THEN StrV("") ELSE msg.content[1]

Msg(role, text) == [role |-> role, content |-> Some(StrV(text))]

\* the messages the bounded lists are built from
Messages == {Msg("user", "hello"), Msg("assistant", "hi")}

\* message lists: every list over Messages up to the bound, and lists whose
\* last user content is empty, absent, null or not a string
MessageLists ==
    SeqUpTo(Messages, MaxMessages)
    \cup {<<Msg("system", "be brief")>>,
          <<Msg("user", "first"), Msg("user", "")>>,
          <<[role |-> "user", content |-> None]>>,
          <<[role |-> "user", content |-> Some(NullV)]>>,
          <<[role |-> "user", content |-> Some(ListV("['hi']"))]>>,
          <<[role |-> "user", content |-> Some(ListV("[]"))], Msg("assistant", "hi")>>}

-----------------------------------------------------------------------------
(* The agent: databricks_agent of agents/databricks_assistant.py (module)  *)
(* and of agents/databricks_assistant/agent.py (package).  `exec` is the   *)
(* outcome of agent_executor.invoke: Return(output), where output is None  *)
(* when the result has no 'output' key, or Raise(message).                 *)

\* max_iterations=5 of the module's AgentExecutor
assistant_max_iterations == 5

\* the package's AgentExecutor is built without max_iterations: the
\* executor's own default applies
agent_max_iterations == 15

StoppedOutput == "Agent stopped due to iteration limit or time limit."

\* databricks_assistant.py: the last user message as the query
assistant_user_query(messages) ==
    LET user_messages == SelectSeq(messages, LAMBDA msg : msg.role = "user")
    IN  IF user_messages /= <<>>
        THEN LET last_content == get_content(user_messages[Len(user_messages)])
             IN  IF last_content.kind = "str" THEN last_content.text
                 ELSE IF value_truthy(last_content) THEN last_content.text
                 ELSE "No user message"
        ELSE "No user message"

\* databricks_assistant.py: the response of either branch of the try
assistant_envelope(content, id) ==
    [choices |-> <<[message |-> [role |-> "assistant", content |-> content],
                    index |-> 0, finish_reason |-> "stop"]>>,
     usage |-> [prompt_tokens |-> 0, completion_tokens |-> 0, total_tokens |-> 0],
     model |-> "databricks-claude-sonnet-4",
     id |-> id,
     object |-> "chat.completion",
     created |-> 0]

\* databricks_assistant.py: what databricks_agent returns once the try block
\* ended with `failure` (an exception's message) or with the executor's result
assistant_response(exec) ==
    IF exec.raised
    THEN Return(assistant_envelope("I encountered an error: " \o exec.exc, "error-response"))
    ELSE LET final_answer == IF exec.value = None THEN "I could not generate a response."
                             ELSE exec.value[1]
         IN  Return(assistant_envelope(final_answer, "langchain-agent-response"))

\* agent.py: the response dictionaries
agent_envelope(content) ==
    [response |-> [choices |-> <<[message |-> [role |-> "assistant", content |-> content]]>>]]

\* agent.py: user_messages = [msg for msg in messages if msg.get('role') == 'user']
agent_user_messages(messages) == SelectSeq(messages, LAMBDA msg : msg.role = "user")

\* agent.py: user_messages[-1].get('content', '')
agent_last_user_message(messages) ==
    LET user_messages == agent_user_messages(messages)
    IN  get_content(user_messages[Len(user_messages)]).text

\* agent.py: what databricks_agent returns after agent_executor.invoke
agent_response(exec) ==
    IF exec.raised
    THEN Return(agent_envelope("I encountered an error: " \o exec.exc))
    ELSE Return(agent_envelope(
            IF exec.value = None THEN "I encountered an error processing your request."
            ELSE exec.value[1]))

\* agent.py: the early return without a user message
agent_static_response == Return(agent_envelope("Please provide a question or request."))

-----------------------------------------------------------------------------
(* POST /api/agent: app.py agent, with the tool-calling loop of the         *)
(* executor run step by step (the handler blocks the event loop meanwhile). *)

\* app.py agent: the log preview raises when the last message's content is null
agent_preview_raises(messages) ==
    /\ messages /= <<>>
    /\ get_content(messages[Len(messages)]).kind = "null"

LlmErrors == {"", "REQUEST_LIMIT_EXCEEDED: rate limit"}
ToolInvocationError == "got an unexpected keyword argument 'catalog_name'"
Outputs == {None, Some(""), Some("Here are your catalogs: main.")}

\* the tool calls the LLM may ask for
ToolCalls ==
    {[tool |-> "list_catalogs", args |-> <<>>],
     [tool |-> "list_schemas", args |-> <<"main">>],
     [tool |-> "list_tables", args |-> <<"main", "default">>],
     [tool |-> "list_volumes", args |-> <<"main", "default">>]}

\* the tool function named by a call, run against the workspace
run_tool(call) ==
    IF call.tool = "list_catalogs"
    THEN list_catalogs(variant, osenv, ambient, workspace.names)
    ELSE IF call.tool = "list_schemas"
    THEN list_schemas(variant, osenv, ambient, call.args[1], workspace.names)
    ELSE IF call.tool = "list_tables"
    THEN list_tables(variant, osenv, ambient, call.args[1], call.args[2], workspace.tables)
    ELSE list_volumes(variant, osenv, ambient, call.args[1], call.args[2], workspace.names)

max_iterations == IF variant = "module" THEN assistant_max_iterations
                  ELSE agent_max_iterations

\* what the handler hands back: QueryAgentResponse(response, trace_id), or the
\* exception it re-raises.  `failure` is the message of the exception raised
\* during the run (None without one), `invocations` the number of calls of
\* agent_executor.invoke, `exec` the outcome of that call (None without one),
\* `update` whether mlflow.update_current_trace succeeded (None when it was
\* not called), `own_trace` the trace opened by this call of databricks_agent
\* (None when it was not called).
AgentCallRecord(messages, response, trace_id, failure, invocations, exec, update, own_trace) ==
    [op |-> "agent", messages |-> messages,
     result |-> IF response.raised THEN response
                ELSE Return([response |-> response.value, trace_id |-> trace_id]),
     failure |-> failure, invocations |-> invocations, exec |-> exec, update |-> update,
     own_trace |-> own_trace]

\* the record while the handler's call of databricks_agent has not returned
InProgress == [op |-> "agent_in_progress"]

\* @mlflow.trace: a call of a traced function opens a new trace, the last
\* active one from then on; it has no previews yet
NewTrace(t) == [last_id |-> t.last_id + 1, previews |-> None]

\* a run in the executor's loop, inside the trace `trace`
Running(messages, query, trace) ==
    [phase |-> "awaiting_llm_decision", iter |-> 0, messages |-> messages,
     query |-> query, pending |-> None, observation |-> None, trace |-> trace]

\* databricks_agent whose preview update is not guarded by a try of its own:
\* a failure of the update reaches the outer except
FinishRun_update_unguarded(exec, update_ok) ==
    LET surfaced == variant = "module" /\ ~exec.raised /\ ~update_ok
    IN  /\ traces' = IF variant = "module" /\ ~exec.raised /\ update_ok
                     THEN [traces EXCEPT !.previews =
                              Some([request_preview |-> run.query,
                                    response_preview |-> assistant_response(exec).value
                                                            .choices[1].message.content])]
                     ELSE traces
        /\ last' = AgentCallRecord(run.messages,
                        IF surfaced THEN assistant_response(Raise("trace is not active"))
                        ELSE IF variant = "module" THEN assistant_response(exec)
                        ELSE agent_response(exec),
                        Some(traces.last_id),
                        IF exec.raised THEN Some(exec.exc) ELSE None,
                        1, Some(exec),
                        IF variant = "module" /\ ~exec.raised THEN Some(update_ok) ELSE None,
                        Some(run.trace))
        /\ run' = Idle

\* agent_executor.invoke ended with `exec` and databricks_agent returns; the
\* module variant first updates the trace previews, which may fail
FinishRun(exec, update_ok) ==
    /\ traces' = IF variant = "module" /\ ~exec.raised /\ update_ok
                 THEN [traces EXCEPT !.previews =
                          Some([request_preview |-> run.query,
                                response_preview |-> assistant_response(exec).value
                                                        .choices[1].message.content])]
                 ELSE traces
    /\ last' = AgentCallRecord(run.messages,
                    IF variant = "module" THEN assistant_response(exec)
                    ELSE agent_response(exec),
                    Some(traces.last_id),
                    IF exec.raised THEN Some(exec.exc) ELSE None,
                    1, Some(exec),
                    IF variant = "module" /\ ~exec.raised THEN Some(update_ok) ELSE None,
                    Some(run.trace))
    /\ run' = Idle

\* the request arrives: the handler logs a preview and calls databricks_agent,
\* which is traced; the LLM client is constructed (it may raise)
AgentRequest ==
    /\ pc = "serving"
    /\ run = Idle
    /\ traces.last_id < MaxTraces
    /\ \E messages \in MessageLists, llm \in {Return(None)} \cup {Raise(m) : m \in LlmErrors} :
          IF agent_preview_raises(messages)
          THEN /\ last' = AgentCallRecord(messages,
                              Raise("'NoneType' object is not subscriptable"),
                              None, None, 0, None, None, None)
               /\ UNCHANGED <<traces, run>>
          ELSE LET trace_id == traces.last_id + 1
               IN  /\ traces' = NewTrace(traces)
                   /\ IF variant = "module"
                      THEN IF llm.raised
                           THEN /\ last' = AgentCallRecord(messages,
                                              assistant_response(llm), Some(trace_id),
                                              Some(llm.exc), 0, None, None, Some(trace_id))
                                /\ run' = Idle
                           ELSE /\ run' = Running(messages, assistant_user_query(messages),
                                                  trace_id)
                                /\ last' = InProgress
                      ELSE IF llm.raised
                           THEN /\ last' = AgentCallRecord(messages, llm, Some(trace_id),
                                                           Some(llm.exc), 0, None, None, Some(trace_id))
                                /\ run' = Idle
                           ELSE IF agent_user_messages(messages) = <<>>
                           THEN /\ last' = AgentCallRecord(messages, agent_static_response,
                                                           Some(trace_id), None, 0, None, None, Some(trace_id))
                                /\ run' = Idle
                           ELSE /\ run' = Running(messages,
                                                  agent_last_user_message(messages),
                                                  trace_id)
                                /\ last' = InProgress
    /\ ServingFrame

\* awaiting_llm_decision: the LLM emits the final answer
LlmFinalAnswer ==
    /\ run.phase = "awaiting_llm_decision"
    /\ \E output \in Outputs, update_ok \in BOOLEAN :
          FinishRun(Return(output), update_ok)
    /\ ServingFrame

\* awaiting_llm_decision: the LLM names a tool
LlmToolCall ==
    /\ run.phase = "awaiting_llm_decision"
    /\ \E call \in ToolCalls :
          run' = [run EXCEPT !.phase = "tool_call", !.pending = Some(call)]
    /\ ServingFrame
    /\ UNCHANGED <<traces, last>>

\* awaiting_llm_decision: the LLM call raises
LlmError ==
    /\ run.phase = "awaiting_llm_decision"
    /\ \E m \in LlmErrors : FinishRun(Raise(m), FALSE)
    /\ ServingFrame

\* one more iteration is done: back to the LLM, or the forced stop at the cap
NextIteration(observation, update_ok) ==
    IF run.iter + 1 >= max_iterations
    THEN FinishRun(Return(Some(StoppedOutput)), update_ok)
    ELSE /\ run' = [run EXCEPT !.phase = "awaiting_llm_decision", !.iter = @ + 1,
                               !.pending = None, !.observation = Some(observation)]
         /\ UNCHANGED <<traces, last>>

\* awaiting_llm_decision: the LLM's output does not parse; with
\* handle_parsing_errors=True the executor feeds the error back as an observation
LlmParseError ==
    /\ run.phase = "awaiting_llm_decision"
    /\ \E update_ok \in BOOLEAN :
          NextIteration("Invalid or incomplete response", update_ok)
    /\ ServingFrame

\* tool_call: the executor invokes the pending tool; the invocation may raise
\* before the function body (and its try block) is entered
ToolCall ==
    /\ run.phase = "tool_call"
    /\ \E entered \in BOOLEAN, update_ok \in BOOLEAN :
          LET r == run_tool(run.pending[1])
          IN  IF ~entered THEN FinishRun(Raise(ToolInvocationError), FALSE)
              ELSE IF r.raised THEN FinishRun(Raise(r.exc), FALSE)
              ELSE NextIteration(r.value, update_ok)
    /\ ServingFrame

AgentRun == AgentRequest \/ LlmFinalAnswer \/ LlmToolCall \/ LlmError \/ LlmParseError
            \/ ToolCall

-----------------------------------------------------------------------------
(* POST /api/invoke_endpoint: agents/model_serving.py model_serving_endpoint *)
(* and app.py invoke_endpoint.  `client` is the outcome of get_client(),     *)
(* `create` the outcome of client.chat.completions.create.                   *)

Choice == [message |-> [role |-> "assistant", content |-> Some("pong")],
           index |-> 0, finish_reason |-> "stop"]

Usage == [prompt_tokens |-> 3, completion_tokens |-> 1, total_tokens |-> 4]

ChatCompletion(choices, usage) ==
    [choices |-> choices, usage |-> usage, model |-> "my-endpoint", id |-> "chatcmpl-1",
     created |-> 1700000000]

\* what the serving endpoint may answer to the one request
CreateOutcomes ==
    {Raise("Error code: 404 - endpoint not found"),
     Return(ChatCompletion(<<Choice>>, Some(Usage))),
     Return(ChatCompletion(<<Choice>>, None)),
     Return(ChatCompletion(<<[Choice EXCEPT !.message.content = None]>>, Some(Usage))),
     Return(ChatCompletion(<<>>, Some(Usage)))}

\* model_serving.py: the request preview
request_preview(messages) ==
    LET user_messages == SelectSeq(messages, LAMBDA msg : msg.role = "user")
    IN  IF user_messages /= <<>>
        THEN LET last_content == get_content(user_messages[Len(user_messages)])
             IN  IF last_content.kind = "str" THEN last_content.text
                 ELSE IF value_truthy(last_content) THEN last_content.text
                 ELSE "No user message"
        ELSE "No user message"

\* model_serving_endpoint that answers a failure with an error envelope
model_serving_endpoint_caught(messages, client, create) ==
    [raised |-> FALSE, exc |-> "",
     value |-> Some(assistant_envelope("I encountered an error", "error-response")),
     requests |-> IF client.raised THEN 0 ELSE 1]

\* model_serving_endpoint: the outcome of the call and the number of
\* chat-completion requests it issued
model_serving_endpoint(messages, client, create) ==
    IF client.raised
    THEN [raised |-> TRUE, exc |-> client.exc, value |-> None, requests |-> 0]
    ELSE IF create.raised
    THEN [raised |-> TRUE, exc |-> create.exc, value |-> None, requests |-> 1]
    ELSE LET response == create.value
         IN  IF response.choices = <<>>
             THEN [raised |-> TRUE, exc |-> "list index out of range", value |-> None,
                   requests |-> 1]
             ELSE [raised |-> FALSE, exc |-> "",
                   value |-> Some(
                     [choices |-> <<[message |-> response.choices[1].message,
                                     index |-> response.choices[1].index,
                                     finish_reason |-> response.choices[1].finish_reason]>>,
                      usage |-> IF response.usage /= None THEN response.usage[1]
                                ELSE [prompt_tokens |-> 0, completion_tokens |-> 0,
                                      total_tokens |-> 0],
                      model |-> response.model,
                      id |-> response.id,
                      object |-> "chat.completion",
                      created |-> response.created]),
                   requests |-> 1]

\* model_serving.py: response.choices[0].message.content or ''
response_preview(response) ==
    IF response.choices[1].message.content = None THEN ""
    ELSE response.choices[1].message.content[1]

EndpointMessageLists == {<<>>, <<Msg("system", "be brief"), Msg("user", "ping")>>}

\* invoke_endpoint that is served while a call of databricks_agent is in
\* flight, as if the agent handler yielded to the event loop
InvokeEndpoint_interleaved ==
    /\ pc = "serving"
    /\ traces.last_id < MaxTraces
    /\ \E messages \in EndpointMessageLists, authenticate \in AuthenticateOutcomes,
          create \in CreateOutcomes, update_ok \in BOOLEAN :
          LET client == get_client(osenv, ambient, authenticate)
              result == model_serving_endpoint(messages, client, create)
          IN  /\ last' = [op |-> "invoke_endpoint", messages |-> messages,
                          client |-> client, create |-> create, result |-> result,
                          update |-> IF result.raised THEN None ELSE Some(update_ok)]
              /\ traces' = IF ~result.raised /\ update_ok
                            THEN [NewTrace(traces) EXCEPT !.previews =
                                    Some([request_preview |-> request_preview(messages),
                                          response_preview |->
                                             response_preview(create.value)])]
                            ELSE NewTrace(traces)
    /\ ServingFrame
    /\ UNCHANGED run

\* app.py invoke_endpoint: the handler returns what model_serving_endpoint
\* returns and catches nothing
InvokeEndpoint ==
    /\ pc = "serving"
    /\ run = Idle
    /\ traces.last_id < MaxTraces
    /\ \E messages \in EndpointMessageLists, authenticate \in AuthenticateOutcomes,
          create \in CreateOutcomes, update_ok \in BOOLEAN :
          LET client == get_client(osenv, ambient, authenticate)
              result == model_serving_endpoint(messages, client, create)
          IN  /\ last' = [op |-> "invoke_endpoint", messages |-> messages,
                          client |-> client, create |-> create, result |-> result,
                          update |-> IF result.raised THEN None ELSE Some(update_ok)]
              /\ traces' = IF ~result.raised /\ update_ok
                            THEN [NewTrace(traces) EXCEPT !.previews =
                                    Some([request_preview |-> request_preview(messages),
                                          response_preview |->
                                             response_preview(create.value)])]
                            ELSE NewTrace(traces)
    /\ ServingFrame
    /\ UNCHANGED run

-----------------------------------------------------------------------------
(* The other handlers of app.py *)

\* tracing.py get_mlflow_experiment_id
get_mlflow_experiment_id == MLFLOW_EXPERIMENT_ID

\* str() of an optional string inside an f-string
fstr(o) == IF o = None THEN "None" ELSE o[1]

\* app.py experiment: ExperimentInfo(experiment_id: str, link: str)
experiment ==
    IF get_mlflow_experiment_id = None
    THEN Raise("1 validation error for ExperimentInfo")
    ELSE Return([experiment_id |-> get_mlflow_experiment_id[1],
                 link |-> fstr(getenv(osenv, "DATABRICKS_HOST")) \o "/ml/experiments/"
                          \o fstr(get_mlflow_experiment_id) \o "?compareRunsMode=TRACES"])

\* GET /api/tracing_experiment
Experiment ==
    /\ pc = "serving"
    /\ run = Idle
    /\ last' = [op |-> "tracing_experiment", result |-> experiment]
    /\ ServingFrame
    /\ UNCHANGED <<traces, run>>

\* app.py health_check; `clock` is the outcome of get_current_time_millis() in
\* the try block, `clock_again` its outcome in the except block
health_check(clock, clock_again) ==
    IF ~clock.raised
    THEN Return([status |-> "healthy", timestamp |-> clock.value,
                 mlflow_experiment_id |-> get_mlflow_experiment_id,
                 environment |-> IF ~IS_DEV THEN "production" ELSE "development"])
    ELSE IF clock_again.raised THEN Raise(clock_again.exc)
    ELSE Return([status |-> "unhealthy", error |-> clock.exc,
                 timestamp |-> clock_again.value])

ClockOutcomes == {Return(1000), Return(2000), Raise("clock unavailable")}

\* app.py health_check that sets tracing up again on every call
HealthCheck_reconfigures ==
    /\ pc = "serving"
    /\ run = Idle
    /\ \E clock \in ClockOutcomes, clock_again \in ClockOutcomes :
          last' = [op |-> "health", clock |-> clock,
                   result |-> health_check(clock, clock_again)]
    /\ tracing' = setup_mlflow_tracing(tracing, osenv)
    /\ UNCHANGED <<variant, osenv, dotenv, ambient, workspace, cli, pc,
                   MLFLOW_EXPERIMENT_ID, IS_DEV, catch_all, traces, run>>

\* GET /api/health
HealthCheck ==
    /\ pc = "serving"
    /\ run = Idle
    /\ \E clock \in ClockOutcomes, clock_again \in ClockOutcomes :
          last' = [op |-> "health", clock |-> clock,
                   result |-> health_check(clock, clock_again)]
    /\ ServingFrame
    /\ UNCHANGED <<traces, run>>

\* POST /api/log_assessment: app.py log_feedback re-raises what
\* mlflow.log_feedback raises
log_feedback(logged) ==
    IF logged.raised THEN Raise(logged.exc) ELSE Return([status |-> "success"])

LogFeedback ==
    /\ pc = "serving"
    /\ run = Idle
    /\ \E logged \in {Return(None), Raise("RESOURCE_DOES_NOT_EXIST: trace not found")} :
          last' = [op |-> "log_assessment", result |-> log_feedback(logged)]
    /\ ServingFrame
    /\ UNCHANGED <<traces, run>>

-----------------------------------------------------------------------------
(* The dev proxy: app.py proxy_to_dev_server, registered when IS_DEV.        *)
(* `upstream` is the outcome of reading the request body and of              *)
(* client.request against the dev server: an httpx response, or an exception *)
(* of class `kind`.                                                          *)

ProxyMethods == {"GET", "POST", "PUT", "DELETE", "OPTIONS", "HEAD"}

ProxyPaths == {"", "xyz"}

\* an httpx response: status, body, headers as (name, value) pairs in order
UpstreamResponse(status_code, content, headers) ==
    [raised |-> FALSE, exc |-> "", kind |-> "",
     value |-> Some([status_code |-> status_code, content |-> content,
                     headers |-> headers])]

UpstreamRaise(kind, msg) == [raised |-> TRUE, exc |-> msg, kind |-> kind, value |-> None]

\* httpx.ConnectError and httpx.ReadTimeout are subclasses of httpx.RequestError
RequestErrors == {"ConnectError", "ReadTimeout"}

UpstreamOutcomes ==
    {UpstreamRaise("ConnectError", "All connection attempts failed"),
     UpstreamRaise("ReadTimeout", ""),
     UpstreamRaise("ClientDisconnect", ""),
     UpstreamResponse(200, "<html></html>", << <<"content-type", "text/html">> >>),
     UpstreamResponse(404, "", <<>>),
     UpstreamResponse(200, "ok", << <<"set-cookie", "a=1">>, <<"set-cookie", "b=2">> >>)}

\* dict(response.headers): one entry per name, the values of a repeated name
\* joined with ", "
headers_dict(headers) ==
    LET names == {headers[i][1] : i \in 1..Len(headers)}
        values(n) == LET kept == SelectSeq(headers, LAMBDA h : h[1] = n)
                     IN  [i \in 1..Len(kept) |-> kept[i][2]]
    IN  [n \in names |-> join(", ", values(n))]

\* Response(content, status_code, headers)
Response(content, status_code, headers) ==
    [content |-> content, status_code |-> status_code, headers |-> headers]

\* Response() sets no header of its own here
NoHeaders == headers_dict(<<>>)

\* proxy_to_dev_server that answers a dead dev server with a 500
proxy_to_dev_server_500(method, full_path, upstream) ==
    IF upstream.raised
    THEN Return(Response("Vite dev server not running.", 500, NoHeaders))
    ELSE Return(Response(upstream.value[1].content, upstream.value[1].status_code,
                         headers_dict(upstream.value[1].headers)))

\* app.py proxy_to_dev_server
proxy_to_dev_server(method, full_path, upstream) ==
    IF upstream.raised
    THEN IF upstream.kind \in RequestErrors
         THEN Return(Response("Vite dev server not running.", 502, NoHeaders))
         ELSE Raise(upstream.exc)
    ELSE Return(Response(upstream.value[1].content, upstream.value[1].status_code,
                         headers_dict(upstream.value[1].headers)))

\* a request that no /api route matches, in dev mode
ProxyToDevServer ==
    /\ pc = "serving"
    /\ run = Idle
    /\ catch_all = "proxy"
    /\ \E method \in ProxyMethods, full_path \in ProxyPaths, upstream \in UpstreamOutcomes :
          last' = [op |-> "proxy", method |-> method, full_path |-> full_path,
                   url |-> "http://localhost:3000/" \o full_path,
                   upstream |-> upstream,
                   result |-> proxy_to_dev_server(method, full_path, upstream)]
    /\ ServingFrame
    /\ UNCHANGED <<traces, run>>

-----------------------------------------------------------------------------
(* The server: startup, then requests *)

EnvBare == [k \in EnvNames |-> None]

EnvApp == [EnvBare EXCEPT !["DATABRICKS_HOST"] = Some("https://foo.cloud.databricks.com"),
                          !["DATABRICKS_CLIENT_ID"] = Some("app-id"),
                          !["DATABRICKS_CLIENT_SECRET"] = Some("s3cret"),
                          !["MLFLOW_EXPERIMENT_ID"] = Some("42")]

WorkspacesSpec ==
    {[names |-> Return(<<[name |-> Some("main")], [name |-> None]>>),
      tables |-> Return(<<[name |-> Some("t1"),
                           table_type |-> Some(Some("TableType.MANAGED"))]>>)]}

Init == InitFrom(Variants, {EnvBare, EnvApp}, {EmptyFile, DevFile}, {FALSE},
                 WorkspacesSpec,
                 {[reload |-> FALSE, build_exists |-> TRUE],
                  [reload |-> FALSE, build_exists |-> FALSE],
                  [reload |-> TRUE, build_exists |-> FALSE]})

Next == Startup \/ AgentRun \/ InvokeEndpoint \/ Experiment \/ HealthCheck \/ LogFeedback
        \/ ProxyToDevServer

Spec == Init /\ [][Next]_vars

-----------------------------------------------------------------------------
(* Claims about credential resolution (properties of SpecAuth) *)

OAuthPair == Truthy(osenv["DATABRICKS_CLIENT_ID"]) /\ Truthy(osenv["DATABRICKS_CLIENT_SECRET"])
HostTokenPair == Truthy(osenv["DATABRICKS_HOST"]) /\ Truthy(osenv["DATABRICKS_TOKEN"])

\* the constructor call the last get_workspace_client() made has this mode
BuiltWith(mode) ==
    /\ last.result.ctor /= None
    /\ last.result.ctor[1].mode = mode

\* C5: credential resolution follows a fixed priority for every environment:
\* with both OAuth variables set the client is built with no explicit host and
\* token (even when host and token are set too); otherwise with both host and
\* token set it is built with explicit host+token; otherwise it is built with
\* the SDK default chain.
C5_CredentialPriority ==
    last.op = "get_workspace_client" =>
        /\ OAuthPair => BuiltWith("default")
        /\ (~OAuthPair /\ HostTokenPair) => BuiltWith("explicit")
        /\ (~OAuthPair /\ ~HostTokenPair) => BuiltWith("default")

\* C6: credential resolution fails for every configuration in which all three
\* strategies are missing, and succeeds for every configuration in which at
\* least one strategy is complete.
C6_FailsIffNoStrategy ==
    last.op \in {"get_workspace_client", "get_client"} =>
        (last.result.raised <=> ~(OAuthPair \/ HostTokenPair \/ ambient))

\* C7: on the host+token path a host that begins with "https://" is handed to
\* the SDK client with exactly that leading scheme removed, and any other host
\* is handed over unchanged.
C7_SchemeStripped ==
    (last.op = "get_workspace_client" /\ BuiltWith("explicit")) =>
        LET given == osenv["DATABRICKS_HOST"][1]
            used == last.result.ctor[1].host[1]
        IN  /\ startswith(given, "https://") => "https://" \o used = given
            /\ ~startswith(given, "https://") => used = given

\* the scenario of C7: https://foo.cloud.databricks.com resolves to the bare host
C7_Witness ==
    /\ last.op = "get_workspace_client"
    /\ BuiltWith("explicit")
    /\ osenv["DATABRICKS_HOST"] = Some("https://foo.cloud.databricks.com")
    /\ last.result.ctor[1].host = Some("foo.cloud.databricks.com")

-----------------------------------------------------------------------------
(* Claims about the catalog tool functions (properties of SpecTools) *)

ToolOps == {"list_catalogs", "list_schemas", "list_tables", "list_volumes"}

\* C1: whenever credential resolution or the remote call raises inside one of
\* the four catalog tool functions, the function raises nothing and returns a
\* string that starts with "Error " and contains the exception's message.
C1_ToolErrorsBecomeStrings ==
    (last.op \in ToolOps /\ (last.w.raised \/ last.remote.raised)) =>
        LET message == IF last.w.raised THEN last.w.exc ELSE last.remote.exc
        IN  /\ ~last.result.raised
            /\ startswith(last.result.value, "Error ")
            /\ contains(last.result.value, message)

\* a remote failure inside list_schemas came back as the error sentence
C1_Witness ==
    /\ last.op = "list_schemas"
    /\ ~last.w.raised
    /\ last.remote = Raise("PERMISSION_DENIED: no access")
    /\ last.result =
         Return("Error listing schemas in catalog \"main\": PERMISSION_DENIED: no access")

\* every item of the remote result has a null or empty name
NoNamedItem(items) == \A i \in 1..Len(items) : ~Truthy(items[i].name)

\* the "No ... found" sentences of each level, in either variant's quoting
NotFoundSentences(op, args) ==
    IF op = "list_catalogs" THEN {"No catalogs found in the workspace."}
    ELSE IF op = "list_schemas"
    THEN {"No schemas found in catalog \"" \o args[1] \o "\".",
          "No schemas found in catalog '" \o args[1] \o "'."}
    ELSE IF op = "list_tables"
    THEN {"No tables found in " \o args[1] \o "." \o args[2] \o "."}
    ELSE {"No volumes found in " \o args[1] \o "." \o args[2] \o "."}

\* C8: when the remote call of a catalog list function succeeds and the result
\* is empty or holds only items with a null or empty name, the function
\* returns the "No ... found" sentence of its level, never an "Error " string.
C8_EmptyListingSentence ==
    (/\ last.op \in ToolOps
     /\ ~last.w.raised
     /\ ~last.remote.raised
     /\ NoNamedItem(last.remote.value)) =>
        /\ ~last.result.raised
        /\ last.result.value \in NotFoundSentences(last.op, last.args)
        /\ ~startswith(last.result.value, "Error ")

\* a schema listing of two unnamed items gave the sentence naming the catalog
C8_Witness ==
    /\ last.op = "list_schemas"
    /\ variant = "package"
    /\ ~last.w.raised
    /\ last.remote = Return(<<[name |-> None], [name |-> Some("")]>>)
    /\ last.result = Return("No schemas found in catalog \"main\".")

-----------------------------------------------------------------------------
(* Claims about POST /api/agent (properties of Spec) *)

\* the chat-completion dictionary inside what databricks_agent returned: the
\* dictionary itself, or the one under its 'response' key
EnvelopeOf(r) == IF "choices" \in DOMAIN r THEN r ELSE r.response

\* the envelope of the last completed call of the agent handler
LastEnvelope == EnvelopeOf(last.result.value.response)

\* C2: for every input message list the agent, reached through POST
\* /api/agent, returns an envelope whose choices[0].message.content is a
\* non-empty string and whose choices[0].finish_reason is "stop", when the
\* executor succeeds and when it fails.
C2_ContentAndFinishReason ==
    last.op = "agent" =>
        /\ ~last.result.raised
        /\ LastEnvelope.choices[1].message.content /= ""
        /\ "finish_reason" \in DOMAIN LastEnvelope.choices[1]
        /\ LastEnvelope.choices[1].finish_reason = "stop"

\* C3: when the message list holds no message with role "user" (the empty
\* list included), the agent returns the static "provide a question" response
\* and the executor is not invoked during that call.
C3_NoUserMessageStaticResponse ==
    (last.op = "agent" /\ agent_user_messages(last.messages) = <<>>) =>
        /\ ~last.result.raised
        /\ LastEnvelope.choices[1].message.content = "Please provide a question or request."
        /\ last.invocations = 0

EnvelopeKeys == {"choices", "usage", "model", "id", "object", "created"}

\* C4: for every failure during an agent run (LLM construction or call error,
\* tool exception escaping the per-tool catch, parsing failure) the agent
\* raises nothing and returns the complete envelope (choices, usage, model,
\* id, object, created) with the exception's message inside
\* choices[0].message.content and the three usage counts equal to 0.
C4_FailureGivesErrorEnvelope ==
    (last.op = "agent" /\ last.failure /= None) =>
        /\ ~last.result.raised
        /\ DOMAIN LastEnvelope = EnvelopeKeys
        /\ contains(LastEnvelope.choices[1].message.content, last.failure[1])
        /\ LastEnvelope.usage =
             [prompt_tokens |-> 0, completion_tokens |-> 0, total_tokens |-> 0]

-----------------------------------------------------------------------------
(* Claims about POST /api/invoke_endpoint (properties of Spec) *)

-----------------------------------------------------------------------------
(* Claims about the tracing configuration (properties of Spec) *)

StartupWrites ==
    [tracking_uri |-> 2, experiment |-> 2, destination |-> 1,
     autolog |-> IF variant = "module" THEN 2 ELSE 1]

-----------------------------------------------------------------------------
(* Claims about GET /api/health (properties of Spec) *)

\* C11: every call of GET /api/health, however many were made before it,
\* answers with status "healthy" as long as the tracing experiment id is
\* resolvable, and otherwise with the {status: "unhealthy", error, timestamp}
\* body; it never raises.
C11_HealthFollowsExperimentId ==
    last.op = "health" =>
        /\ ~last.result.raised
        /\ get_mlflow_experiment_id /= None => last.result.value.status = "healthy"
        /\ get_mlflow_experiment_id = None =>
              /\ last.result.value.status = "unhealthy"
              /\ DOMAIN last.result.value = {"status", "error", "timestamp"}

-----------------------------------------------------------------------------
(* Claims about the dev proxy (properties of Spec) *)

\* C12: in dev mode, for every path and method routed to the dev proxy, when
\* no dev server is reachable on localhost:3000 the response has status 502
\* and the body "Vite dev server not running."; when the dev server answers,
\* its status code and its content are returned unchanged.
C12_ProxyAnswers ==
    last.op = "proxy" =>
        /\ IS_DEV
        /\ last.url = "http://localhost:3000/" \o last.full_path
        /\ (last.upstream.raised /\ last.upstream.kind \in RequestErrors) =>
              /\ ~last.result.raised
              /\ last.result.value.status_code = 502
              /\ last.result.value.content = "Vite dev server not running."
        /\ ~last.upstream.raised =>
              /\ ~last.result.raised
              /\ last.result.value.status_code = last.upstream.value[1].status_code
              /\ last.result.value.content = last.upstream.value[1].content

\* the scenario of C12: POST /xyz with nothing listening on port 3000
C12_Witness ==
    /\ last.op = "proxy"
    /\ last.method = "POST"
    /\ last.full_path = "xyz"
    /\ last.upstream.kind = "ConnectError"
    /\ last.result = Return(Response("Vite dev server not running.", 502, NoHeaders))

-----------------------------------------------------------------------------
(* Claims about the executor's loop (properties of Spec) *)

\* C13: an agent run that starts in awaiting_llm_decision goes through
\* tool_call and back at most 5 times, whatever tools the LLM asks for, and a
\* run that ended has returned an envelope.
C13_LoopBoundedByFive ==
    /\ run /= Idle => run.iter < 5
    /\ (last.op = "agent" /\ last.invocations = 1) =>
          /\ ~last.result.raised
          /\ LastEnvelope.choices /= <<>>

-----------------------------------------------------------------------------
(* Claims about the trace previews (properties of Spec) *)

\* what databricks_agent returns for the executor's outcome alone
ResponseFor(exec) ==
    IF variant = "module" THEN assistant_response(exec) ELSE agent_response(exec)

\* C14: a failure of the trace-preview update is not surfaced: for every agent
\* or endpoint invocation whose main call succeeded, the value returned when
\* mlflow.update_current_trace raises is the value returned when it succeeds
\* (the answer built from the main call's result), and when the update
\* succeeds the trace carries a preview of the input query and of the answer.
C14_PreviewFailureNotSurfaced ==
    /\ (last.op = "agent" /\ last.update /= None) =>
          /\ ~last.result.raised
          /\ last.result.value.response = ResponseFor(last.exec[1]).value
          /\ LastEnvelope.choices[1].message.content =
                (IF last.exec[1].value = None THEN "I could not generate a response."
                 ELSE last.exec[1].value[1])
          /\ last.update = Some(TRUE) =>
                traces.previews =
                   Some([request_preview |-> assistant_user_query(last.messages),
                         response_preview |-> LastEnvelope.choices[1].message.content])
    /\ (last.op = "invoke_endpoint" /\ last.update /= None) =>
          /\ ~last.result.raised
          /\ last.result.value[1].choices[1].message = last.create.value.choices[1].message
          /\ last.result.value[1].id = last.create.value.id
          /\ last.update = Some(TRUE) =>
                traces.previews =
                   Some([request_preview |-> request_preview(last.messages),
                         response_preview |-> response_preview(last.create.value)])

\* the preview update failed after the executor answered, and the caller got
\* the answer
C14_Witness ==
    /\ last.op = "agent"
    /\ last.update = Some(FALSE)
    /\ last.exec = Some(Return(Some("Here are your catalogs: main.")))
    /\ LastEnvelope.choices[1].message.content = "Here are your catalogs: main."
    /\ LastEnvelope.id = "langchain-agent-response"
    /\ traces.previews = None

-----------------------------------------------------------------------------
(* Claims about dev mode (properties of Spec) *)

\* os.getenv('IS_DEV', 'false').lower() == 'true'
EnvSaysDev ==
    py_lower(IF getenv(osenv, "IS_DEV") = None THEN "false"
             ELSE getenv(osenv, "IS_DEV")[1]) = "true"

\* C15: once startup has ended, dev mode is on when --reload was given,
\* whatever IS_DEV says, and follows the IS_DEV environment variable when it
\* was not; exactly one catch-all handler is registered, the dev proxy in dev
\* mode and the static mount in prod mode, where a missing build directory
\* makes startup fail.
C15_DevModeSelection ==
    pc \in {"serving", "failed"} =>
        /\ cli.reload => IS_DEV
        /\ ~cli.reload => (IS_DEV <=> EnvSaysDev)
        /\ IS_DEV => (pc = "serving" /\ catch_all = "proxy")
        /\ ~IS_DEV => IF cli.build_exists THEN pc = "serving" /\ catch_all = "static"
                      ELSE pc = "failed" /\ catch_all = "none"

-----------------------------------------------------------------------------
(* Claims about list_tables (properties of SpecTools) *)

\* "name (TYPE)" of every table with a name, TYPE being "TABLE" when the type
\* attribute is missing or unset
AnnotatedTables(tables) ==
    LET kept == SelectSeq(tables, LAMBDA t : Truthy(t.name))
        type_of(t) == IF t.table_type = None \/ t.table_type = Some(None) THEN "TABLE"
                      ELSE t.table_type[1][1]
    IN  [i \in 1..Len(kept) |-> kept[i].name[1] \o " (" \o type_of(kept[i]) \o ")"]

\* C16: list_tables lists every returned table that has a non-empty name as
\* "name (TYPE)", TYPE being the table's type metadata when present and
\* "TABLE" when it is absent (attribute missing or unset); tables with a null
\* or empty name do not appear.
C16_TablesAnnotatedWithType ==
    (/\ last.op = "list_tables"
     /\ ~last.w.raised
     /\ ~last.remote.raised
     /\ AnnotatedTables(last.remote.value) /= <<>>) =>
        last.result =
           Return("Tables in " \o last.args[1] \o "." \o last.args[2] \o ": "
                  \o join(", ", AnnotatedTables(last.remote.value)))

-----------------------------------------------------------------------------
(* Claims about the trace id of a response (properties of Spec) *)

====
